---- MODULE Spec2Model ----
(***************************************************************************)
(* A model of count.ts, the AST-based OOP vs FP counter for TypeScript     *)
(* code bases: the classifier countNode, the per-file driver countFile,    *)
(* the directory walker walkDir and the main script (totals and report).   *)
(***************************************************************************)
EXTENDS Integers, Sequences, FiniteSets, TLC

VARIABLES
    tree,            \* the syntax tree createSourceFile built (pre-order)
    cpc,             \* classifier run: "idle" | "parse" | "counted"
    result,          \* what the classification of tree returned
    root,            \* walkDir's dir argument (resolved target directory)
    excludePatterns, \* the --exclude substrings
    stack,           \* walk(currentDir) activations, innermost last
    results,         \* walkDir's results array
    seenFiles,       \* full paths of the isFile() entries readdirSync listed
    nEntries,        \* directory entries processed so far
    wpc,             \* walker run: "idle" | "start" | "walk" | "returned"
    files,           \* main: the files constant (paths with their content)
    idx,             \* main: files already processed by the for loop
    totals,          \* main: the totals accumulator
    jsonOutput,      \* main: --json given
    mpc,             \* main: "idle" | "loop" | "exit"
    output,          \* main: what the report printed
    stackRoom        \* frames the call stack had room for at the latest walk

vars == <<tree, cpc, result, root, excludePatterns, stack, results, seenFiles,
          nEntries, wpc, files, idx, totals, jsonOutput, mpc, output,
          stackRoom>>

countVars == <<tree, cpc, result>>
walkVars  == <<root, excludePatterns, stack, results, seenFiles, nEntries, wpc>>
mainVars  == <<files, idx, totals, jsonOutput, mpc, output>>
envVars   == <<stackRoom>>

----------------------------------------------------------------------------
(* Bounds of the model.                                                    *)

MaxNodes == 5

MaxEntries == 4

MaxDepth == 2

MaxFiles == 3

MaxClasses == 2

MaxMethods == 4

MaxFunctions == 36

MaxArrows == 5

GroupSize == 6

----------------------------------------------------------------------------
(* Syntax trees.  A tree is the sequence of its nodes below the SourceFile *)
(* in source (pre-)order, the order ts.forEachChild follows; each node     *)
(* records its SyntaxKind and the index of its parent (0: the SourceFile). *)
(* "Other" is a node of any SyntaxKind the switch of countNode has no case *)
(* for (Block, Parameter, CallExpression, PropertyDeclaration, ...).       *)

ClassLike == {"ClassDeclaration", "ClassExpression"}

MethodLike == {"MethodDeclaration", "GetAccessor", "SetAccessor", "Constructor"}

FunctionKinds == {"FunctionDeclaration", "FunctionExpression", "ArrowFunction"}

Kinds == ClassLike \cup MethodLike \cup FunctionKinds
            \cup {"Decorator", "ObjectLiteralExpression", "Other"}

\* The kinds the parser can put directly below a node of each kind.
AllowedChildren(kind) ==
    CASE kind = "SourceFile" ->
            {"FunctionDeclaration", "ClassDeclaration", "Other"}
      [] kind \in ClassLike ->
            {"Decorator", "Other"} \cup MethodLike
      [] kind \in {"MethodDeclaration", "GetAccessor", "SetAccessor"} ->
            {"Decorator", "Other"}
      [] kind \in {"Constructor", "FunctionDeclaration", "FunctionExpression",
                   "Decorator"} ->
            {"Other"}
      [] kind = "ArrowFunction" ->
            {"Other", "ArrowFunction", "FunctionExpression", "ClassExpression"}
      [] kind = "ObjectLiteralExpression" ->
            {"Other", "MethodDeclaration", "GetAccessor", "SetAccessor"}
      [] OTHER ->
            {"Other", "FunctionDeclaration", "ClassDeclaration", "ArrowFunction",
             "FunctionExpression", "ClassExpression", "ObjectLiteralExpression"}

KindOf(t, n) == IF n = 0 THEN "SourceFile" ELSE t[n].kind

\* The nodes a next node in source order can hang below: the last node and
\* its ancestors, up to the SourceFile.
RECURSIVE AncestorsOrSelf(_, _)
AncestorsOrSelf(t, n) ==
    IF n = 0 THEN {0} ELSE {n} \cup AncestorsOrSelf(t, t[n].parent)

Children(t, n) ==
    SelectSeq([j \in 1..Len(t) |-> j], LAMBDA j : t[j].parent = n)

RECURSIVE HasClassAncestor(_, _)
HasClassAncestor(t, n) ==
    /\ n # 0
    /\ t[n].parent # 0
    /\ \/ t[t[n].parent].kind \in ClassLike
       \/ HasClassAncestor(t, t[n].parent)

----------------------------------------------------------------------------
(* The classifier.                                                         *)

ZeroCounts == [classes |-> 0, methods |-> 0, functions |-> 0, arrowFunctions |-> 0]

AddCounts(a, b) ==
    [classes        |-> a.classes + b.classes,
     methods        |-> a.methods + b.methods,
     functions      |-> a.functions + b.functions,
     arrowFunctions |-> a.arrowFunctions + b.arrowFunctions]

\* case MethodDeclaration / GetAccessor / SetAccessor / Constructor
MethodCase(counts, inClass) ==
    IF inClass THEN [counts EXCEPT !.methods = @ + 1] ELSE counts

\* case FunctionDeclaration
FunctionDeclarationCase(counts, inClass) ==
    [counts EXCEPT !.functions = @ + 1]

\* case FunctionExpression
FunctionExpressionCase_CountsAlways(counts, inClass) ==
    [counts EXCEPT !.functions = @ + 1]
FunctionExpressionCase(counts, inClass) ==
    IF ~inClass THEN [counts EXCEPT !.functions = @ + 1] ELSE counts

\* case ArrowFunction
ArrowFunctionCase(counts, inClass) ==
    IF ~inClass THEN [counts EXCEPT !.arrowFunctions = @ + 1] ELSE counts

\* The flag the children of a class-like node are visited with.
ClassChildFlag(inClass) == TRUE

\* The flag countFile starts the walk with, below the SourceFile.
RootFlag == FALSE

\* The cases of the switch other than the class-like one (which returns).
switchCases(kind, counts, inClass) ==
    CASE kind \in MethodLike -> MethodCase(counts, inClass)
      [] kind = "FunctionDeclaration" -> FunctionDeclarationCase(counts, inClass)
      [] kind = "FunctionExpression" -> FunctionExpressionCase(counts, inClass)
      [] kind = "ArrowFunction" -> ArrowFunctionCase(counts, inClass)
      [] OTHER -> counts

\* The call stack.  countNode and ts.forEachChild call each other, one level
\* of the tree deeper each time, and a call made when the stack has no room
\* left throws a RangeError.  The room is the engine's (thousands of frames
\* on a default build) and is not the same from one walk of a run to the
\* next, the frames of a function changing size as the engine compiles it.
\* It is counted here in calls of the two functions and scaled to the
\* trees tried: enough for each of them, or short of the deepest by the
\* last call of ts.forEachChild, or by the last countNode.
StackRooms == {2 * MaxNodes - 1, 2 * MaxNodes, 2 * MaxNodes + 1}

\* countNode(node, counts, inClass), on node n of tree t.  acc carries the
\* counts object the walk mutates and, beside it, the log of the calls of
\* countNode entered so far (the node and the inClass argument of each),
\* the frames the stack has left, and whether a RangeError is on its way up.
RECURSIVE countNode(_, _, _, _)
RECURSIVE forEachChild(_, _, _, _)
RECURSIVE visitNodes(_, _, _, _)

countNode(t, n, acc, inClass) ==
    IF acc.frames = 0 THEN [acc EXCEPT !.thrown = TRUE]
    ELSE LET entered == [acc EXCEPT !.calls = Append(@, [node |-> n, inClass |-> inClass]),
                                    !.frames = @ - 1]
             kind == t[n].kind
             walked == IF kind \in ClassLike
                       THEN \* counts.classes++; forEachChild(..., true); return
                            forEachChild(t, n, [entered EXCEPT !.counts.classes = @ + 1],
                                         ClassChildFlag(inClass))
                       ELSE \* the switch, then the forEachChild after it
                            forEachChild(t, n,
                                [entered EXCEPT !.counts = switchCases(kind, @, inClass)],
                                inClass)
         IN  IF walked.thrown THEN walked ELSE [walked EXCEPT !.frames = @ + 1]

\* ts.forEachChild(node, child => countNode(child, counts, flag)), on node n
\* (0: the SourceFile): a call of its own, which hands the children of the
\* node to the callback in source order.
forEachChild(t, n, acc, flag) ==
    IF acc.frames = 0 THEN [acc EXCEPT !.thrown = TRUE]
    ELSE LET visited == visitNodes(t, Children(t, n), [acc EXCEPT !.frames = @ - 1], flag)
         IN  IF visited.thrown THEN visited ELSE [visited EXCEPT !.frames = @ + 1]

\* The callback on each child cs in turn, for as long as none throws.
visitNodes(t, cs, acc, flag) ==
    IF cs = <<>> THEN acc
    ELSE LET visited == countNode(t, Head(cs), acc, flag)
         IN  IF visited.thrown THEN visited
             ELSE visitNodes(t, Tail(cs), visited, flag)

\* The counts object countFile creates, before anything is visited.
NothingVisited == [counts |-> ZeroCounts, calls |-> <<>>, frames |-> 0, thrown |-> FALSE]

\* The walk countFile starts once the source is parsed into t, on a stack
\* with room for so many frames: what it has made of counts when it ends,
\* by returning or by throwing.
classify(t, room) ==
    forEachChild(t, 0, [NothingVisited EXCEPT !.frames = room], RootFlag)

----------------------------------------------------------------------------
(* The classifier run on every tree of at most MaxNodes nodes.             *)

\* The parts of the program a run does not exercise stay as they are here.
IdleCount ==
    /\ tree = <<>> /\ cpc = "idle"
    /\ result = NothingVisited

IdleWalk ==
    /\ root = "" /\ excludePatterns = <<>> /\ stack = <<>> /\ results = <<>>
    /\ seenFiles = {} /\ nEntries = 0 /\ wpc = "idle"

IdleMain ==
    /\ files = <<>> /\ idx = 0 /\ totals = ZeroCounts /\ jsonOutput = FALSE
    /\ mpc = "idle" /\ output = [mode |-> "none"]

InitCount ==
    /\ tree = <<>>
    /\ cpc = "parse"
    /\ result = NothingVisited
    /\ stackRoom = 0
    /\ IdleWalk
    /\ IdleMain

\* createSourceFile reads one more node of the file, of kind k, below p.
ParseNode(k, p) ==
    /\ cpc = "parse"
    /\ Len(tree) < MaxNodes
    /\ p \in AncestorsOrSelf(tree, Len(tree))
    /\ k \in AllowedChildren(KindOf(tree, p))
    /\ tree' = Append(tree, [kind |-> k, parent |-> p])
    /\ UNCHANGED <<cpc, result>>
    /\ UNCHANGED walkVars
    /\ UNCHANGED mainVars
    /\ UNCHANGED envVars

\* The end of the file is reached and the tree is classified, on a stack
\* with room for so many frames.
Classify(room) ==
    /\ cpc = "parse"
    /\ cpc' = "counted"
    /\ stackRoom' = room
    /\ result' = classify(tree, room)
    /\ UNCHANGED tree
    /\ UNCHANGED walkVars
    /\ UNCHANGED mainVars

NextCount ==
    \/ \E k \in Kinds : \E p \in 0..MaxNodes : ParseNode(k, p)
    \/ \E room \in StackRooms : Classify(room)

SpecCount == InitCount /\ [][NextCount]_vars

----------------------------------------------------------------------------
(* The directory walker.  Paths and patterns are strings.                  *)

SKIP_DIRS ==
    {"node_modules", ".next", ".git", "dist", "build", "out", ".turbo", ".cache",
     "coverage", "__pycache__", ".bazel-cache", "bazel-out", ".output", ".nuxt",
     ".svelte-kit"}

\* String.prototype.includes
Includes(s, p) ==
    \E i \in 1..(Len(s) - Len(p) + 1) : SubSeq(s, i, i + Len(p) - 1) = p

\* String.prototype.endsWith
EndsWith(s, suffix) ==
    /\ Len(s) >= Len(suffix)
    /\ SubSeq(s, Len(s) - Len(suffix) + 1, Len(s)) = suffix

\* /\.(ts|tsx)$/.test(name)
MatchesTsExtension(name) == EndsWith(name, ".ts") \/ EndsWith(name, ".tsx")

\* path.join(currentDir, entry.name), for a resolved directory and a bare
\* name: one separator between the two, none added after the root "/".
pathJoin(dir, name) ==
    IF EndsWith(dir, "/") THEN dir \o name ELSE dir \o "/" \o name

\* path.relative(dir, fullPath), for a resolved dir and a fullPath below it:
\* fullPath without dir and the separator that follows it.
pathRelative(dir, fullPath) ==
    LET base == IF EndsWith(dir, "/") THEN dir ELSE dir \o "/"
    IN  SubSeq(fullPath, Len(base) + 1, Len(fullPath))

\* excludePatterns.some((p) => relativePath.includes(p))
Excluded(patterns, relativePath) ==
    \E k \in 1..Len(patterns) : Includes(relativePath, patterns[k])

\* SKIP_DIRS.has(entry.name)
SkipDir_Never(name) == FALSE
SkipDir(name) == name \in SKIP_DIRS

\* The directory branch: continue, or go on to walk(fullPath).
DescendsInto(name, patterns, relativePath) ==
    /\ ~SkipDir(name)
    /\ ~Excluded(patterns, relativePath)

\* The file branch: whether fullPath is pushed onto results.
FileListed_ByNameOnly(name, patterns, relativePath) ==
    /\ MatchesTsExtension(name)
    /\ ~EndsWith(name, ".d.ts")
    /\ ~Excluded(patterns, name)
FileListed(name, patterns, relativePath) ==
    /\ MatchesTsExtension(name)
    /\ ~EndsWith(name, ".d.ts")
    /\ ~Excluded(patterns, relativePath)

\* The directories and entries the walk is tried on.
Roots == {"/", "/w", "/w/dist"}

ExcludeChoices == {<<>>, <<"gen">>, <<"src/a", ".tsx">>, <<"dist">>}

DirNames == {"src", "dist", "gen"}

FileNames == {"a.ts", "b.tsx", "c.d.ts", "e.js"}

OtherNames == {"link"}

InitWalk ==
    /\ root \in Roots
    /\ excludePatterns \in ExcludeChoices
    /\ stack = <<>>
    /\ results = <<>>
    /\ seenFiles = {}
    /\ nEntries = 0
    /\ wpc = "start"
    /\ stackRoom = 0
    /\ IdleCount
    /\ IdleMain

\* walkDir calls walk(dir): readdirSync lists the root, or throws and walk
\* returns at once.
WalkRoot(readable) ==
    /\ wpc = "start"
    /\ IF readable
       THEN /\ stack' = <<[dir |-> root, names |-> {}]>>
            /\ wpc' = "walk"
       ELSE /\ stack' = <<>>
            /\ wpc' = "returned"
    /\ UNCHANGED <<root, excludePatterns, results, seenFiles, nEntries>>
    /\ UNCHANGED countVars
    /\ UNCHANGED mainVars
    /\ UNCHANGED envVars

\* One round of the for loop of the innermost walk, on an entry of its
\* directory not met before: a directory (readable or not), a file, or
\* something else.
WalkEntry(name, type, readable) ==
    /\ wpc = "walk"
    /\ stack # <<>>
    /\ nEntries < MaxEntries
    /\ LET frame == stack[Len(stack)]
           fullPath == pathJoin(frame.dir, name)
           relativePath == pathRelative(root, fullPath)
           listed == [stack EXCEPT ![Len(stack)].names = @ \cup {name}]
       IN  /\ name \notin frame.names
           /\ nEntries' = nEntries + 1
           /\ CASE type = "dir" ->
                     /\ Len(stack) <= MaxDepth
                     /\ stack' = IF DescendsInto(name, excludePatterns, relativePath)
                                    /\ readable
                                 THEN Append(listed, [dir |-> fullPath, names |-> {}])
                                 ELSE listed
                     /\ UNCHANGED <<results, seenFiles>>
                [] type = "file" ->
                     /\ stack' = listed
                     /\ seenFiles' = seenFiles \cup {fullPath}
                     /\ results' = IF FileListed(name, excludePatterns, relativePath)
                                   THEN Append(results, fullPath)
                                   ELSE results
                [] OTHER ->
                     /\ stack' = listed
                     /\ UNCHANGED <<results, seenFiles>>
    /\ UNCHANGED <<root, excludePatterns, wpc>>
    /\ UNCHANGED countVars
    /\ UNCHANGED mainVars
    /\ UNCHANGED envVars

\* The for loop of the innermost walk ends; the outermost one ending,
\* walkDir returns results.
WalkReturn ==
    /\ wpc = "walk"
    /\ stack # <<>>
    /\ stack' = SubSeq(stack, 1, Len(stack) - 1)
    /\ wpc' = IF Len(stack) = 1 THEN "returned" ELSE "walk"
    /\ UNCHANGED <<root, excludePatterns, results, seenFiles, nEntries>>
    /\ UNCHANGED countVars
    /\ UNCHANGED mainVars
    /\ UNCHANGED envVars

NextWalk ==
    \/ \E readable \in BOOLEAN : WalkRoot(readable)
    \/ \E name \in DirNames : \E readable \in BOOLEAN : WalkEntry(name, "dir", readable)
    \/ \E name \in FileNames : WalkEntry(name, "file", TRUE)
    \/ \E name \in OtherNames : WalkEntry(name, "other", TRUE)
    \/ WalkReturn

SpecWalk == InitWalk /\ [][NextWalk]_vars

----------------------------------------------------------------------------
(* The per-file driver and the main script.  A file is what readFileSync   *)
(* and createSourceFile make of it: ok (both succeed) and the tree parsed. *)

\* countFile(filePath), on a stack with room for so many frames.  The try
\* encloses the read, the parse and the walk, and the catch returns counts
\* as it is by then: zeroed when the read or the parse throws, and with what
\* the walk had counted when the walk throws.
countFile_IgnoresFailure(file, room) == classify(file.tree, room).counts
countFile(file, room) ==
    IF file.ok THEN classify(file.tree, room).counts ELSE ZeroCounts

\* The body of the for loop over files.
Accumulate(t, counts) ==
    [classes        |-> t.classes + counts.classes,
     methods        |-> t.methods + counts.methods,
     functions      |-> t.functions + counts.functions,
     arrowFunctions |-> t.arrowFunctions + counts.arrowFunctions]

\* Number to string, for a natural number.
RECURSIVE NatToString(_)
NatToString(n) ==
    IF n < 10 THEN SubSeq("0123456789", n + 1, n + 1)
    ELSE NatToString(n \div 10) \o SubSeq("0123456789", (n % 10) + 1, (n % 10) + 1)

\* oopTotal / fpTotal is an IEEE 754 double: the quotient rounded to 53
\* significant bits, to nearest, ties to even.  RoundingOfQuotient is the
\* sign of (the double - the exact quotient), found by long division:
\* rem is the remainder after the bits produced so far, last the last bit.
RECURSIVE Normalise(_, _)
Normalise(num, den) ==
    IF num < den THEN Normalise(2 * num, den)
    ELSE IF num >= 2 * den THEN Normalise(num, 2 * den)
    ELSE <<num, den>>

RECURSIVE DivideBits(_, _, _, _)
DivideBits(rem, den, last, bitsLeft) ==
    IF bitsLeft = 0 THEN <<rem, last>>
    ELSE IF 2 * rem >= den
         THEN DivideBits(2 * rem - den, den, 1, bitsLeft - 1)
         ELSE DivideBits(2 * rem, den, 0, bitsLeft - 1)

SignificandBits == 53

RoundingOfQuotient(a, b) ==
    IF a = 0 THEN 0
    ELSE LET nd == Normalise(a, b)
             r  == DivideBits(nd[1] - nd[2], nd[2], 1, SignificandBits - 1)
         IN  CASE r[1] = 0 -> 0
               [] 2 * r[1] < nd[2] -> -1
               [] 2 * r[1] > nd[2] -> 1
               [] OTHER -> IF r[2] = 1 THEN 1 ELSE -1

\* (oopTotal / fpTotal).toFixed(2), in hundredths: the integer n for which
\* n / 100 is nearest to the double, the larger of two equally near.  The
\* double lies within 2^-53 of the exact quotient (relatively), so n is
\* the integer nearest to 100 * a / b, unless that is halfway between two
\* integers: then the side the double fell on decides.
ToFixed2_Truncates(a, b) == (100 * a) \div b
ToFixed2(a, b) ==
    LET up  == (200 * a + b) \div (2 * b)
        tie == (200 * a + b) % (2 * b) = 0
    IN  IF tie /\ RoundingOfQuotient(a, b) < 0 THEN up - 1 ELSE up

\* The string toFixed(2) returns for n hundredths.
FixedString(n) ==
    NatToString(n \div 100) \o "." \o NatToString((n % 100) \div 10)
        \o NatToString(n % 10)

\* const ratio = fpTotal > 0 ? (oopTotal / fpTotal).toFixed(2) : "inf"
ratioOf(oopTotal, fpTotal) ==
    IF fpTotal > 0 THEN FixedString(ToFixed2(oopTotal, fpTotal)) ELSE "inf"

\* parseFloat, on a string: the longest decimal literal it starts with, as
\* hundredths (exact for at most two decimals), or NaN when there is none.
IsDigit(c) == Includes("0123456789", c) /\ Len(c) = 1

DigitValue(c) == (CHOOSE i \in 1..10 : SubSeq("0123456789", i, i) = c) - 1

RECURSIVE DigitPrefix(_)
DigitPrefix(str) ==
    IF str # "" /\ IsDigit(SubSeq(str, 1, 1))
    THEN SubSeq(str, 1, 1) \o DigitPrefix(SubSeq(str, 2, Len(str)))
    ELSE ""

RECURSIVE DigitsValue(_)
DigitsValue(ds) ==
    IF ds = "" THEN 0
    ELSE 10 * DigitsValue(SubSeq(ds, 1, Len(ds) - 1)) + DigitValue(SubSeq(ds, Len(ds), Len(ds)))

parseFloat(str) ==
    LET int  == DigitPrefix(str)
        rest == SubSeq(str, Len(int) + 1, Len(str))
        frac == IF rest # "" /\ SubSeq(rest, 1, 1) = "."
                THEN SubSeq(DigitPrefix(SubSeq(rest, 2, Len(rest))) \o "00", 1, 2)
                ELSE "00"
    IN  IF int = "" THEN [nan |-> TRUE]
        ELSE [nan |-> FALSE, hundredths |-> 100 * DigitsValue(int) + DigitsValue(frac)]

\* JSON.stringify of a number: NaN is written null.
JsonNumber(x) ==
    IF x.nan THEN [null |-> TRUE] ELSE [null |-> FALSE, hundredths |-> x.hundredths]

\* The report, in either mode.
report(t, nFiles, json) ==
    LET oopTotal == t.classes + t.methods
        fpTotal  == t.functions + t.arrowFunctions
        ratio    == ratioOf(oopTotal, fpTotal)
    IN  IF json
        THEN [mode  |-> "json",
              files |-> nFiles,
              oop   |-> [total |-> oopTotal, classes |-> t.classes, methods |-> t.methods],
              fp    |-> [total |-> fpTotal, functions |-> t.functions,
                         arrowFunctions |-> t.arrowFunctions],
              ratio |-> JsonNumber(parseFloat(ratio))]
        ELSE [mode  |-> "text",
              lines |-> << "OOP: " \o NatToString(oopTotal) \o " ("
                               \o NatToString(t.classes) \o " classes + "
                               \o NatToString(t.methods) \o " methods)",
                           "FP:  " \o NatToString(fpTotal) \o " ("
                               \o NatToString(t.functions) \o " functions + "
                               \o NatToString(t.arrowFunctions) \o " arrows)",
                           "Ratio (OOP:FP): " \o ratio \o ":1",
                           "Files: " \o NatToString(nFiles) >>]

\* Files the main script is tried on: a file of c classes, the first with m
\* methods; a file of f function declarations, in namespace blocks of
\* GroupSize, and a arrow functions (each the initializer of a statement).
OopFile(c, m) ==
    [j \in 1..(c + m) |->
        IF j = 1 THEN [kind |-> "ClassDeclaration", parent |-> 0]
        ELSE IF j <= m + 1 THEN [kind |-> "MethodDeclaration", parent |-> 1]
        ELSE [kind |-> "ClassDeclaration", parent |-> 0]]

FlatFile(f, a) ==
    LET blocks == (f + GroupSize - 1) \div GroupSize
        fnodes == f + blocks
    IN  [j \in 1..(fnodes + 2 * a) |->
            IF j <= fnodes
            THEN IF (j - 1) % (GroupSize + 1) = 0
                 THEN [kind |-> "Other", parent |-> 0]
                 ELSE [kind |-> "FunctionDeclaration",
                       parent |-> j - ((j - 1) % (GroupSize + 1))]
            ELSE IF (j - fnodes) % 2 = 1 THEN [kind |-> "Other", parent |-> 0]
            ELSE [kind |-> "ArrowFunction", parent |-> j - 1]]

\* A function declaration, then a statement nested MaxNodes deep with an
\* arrow function innermost, then a class.
DeepFile ==
    [j \in 1..(MaxNodes + 2) |->
        IF j = 1 THEN [kind |-> "FunctionDeclaration", parent |-> 0]
        ELSE IF j = 2 THEN [kind |-> "Other", parent |-> 0]
        ELSE IF j <= MaxNodes THEN [kind |-> "Other", parent |-> j - 1]
        ELSE IF j = MaxNodes + 1 THEN [kind |-> "ArrowFunction", parent |-> j - 1]
        ELSE [kind |-> "ClassDeclaration", parent |-> 0]]

SampleTrees == {<<>>, OopFile(1, 2), FlatFile(3, 5), FlatFile(1, 0), DeepFile}

SampleFiles == [ok : BOOLEAN, tree : SampleTrees]

\* After walkDir has returned files, before the for loop.
InitMain ==
    /\ files \in UNION {[1..n -> SampleFiles] : n \in 0..MaxFiles}
    /\ idx = 0
    /\ totals = ZeroCounts
    /\ jsonOutput \in BOOLEAN
    /\ mpc = "loop"
    /\ output = [mode |-> "none"]
    /\ stackRoom = 0
    /\ IdleCount
    /\ IdleWalk

\* The same, on two files: one of classes and methods, one of functions
\* and arrows, over a range of sizes.
InitReport ==
    /\ \E c \in 0..MaxClasses, m \in 0..MaxMethods, f \in 0..MaxFunctions,
          a \in 0..MaxArrows :
          /\ (m > 0 => c > 0)
          /\ files = << [ok |-> TRUE, tree |-> OopFile(c, m)],
                        [ok |-> TRUE, tree |-> FlatFile(f, a)] >>
    /\ idx = 0
    /\ totals = ZeroCounts
    /\ jsonOutput \in BOOLEAN
    /\ mpc = "loop"
    /\ output = [mode |-> "none"]
    /\ stackRoom = 0
    /\ IdleCount
    /\ IdleWalk

\* One round of the for loop: countFile, on a stack with room for so many
\* frames this time, and its counts added to totals.
CountNextFile(room) ==
    /\ mpc = "loop"
    /\ idx < Len(files)
    /\ stackRoom' = room
    /\ totals' = Accumulate(totals, countFile(files[idx + 1], room))
    /\ idx' = idx + 1
    /\ UNCHANGED <<files, jsonOutput, mpc, output>>
    /\ UNCHANGED countVars
    /\ UNCHANGED walkVars

\* After the loop: the totals, the ratio and the report.
Report ==
    /\ mpc = "loop"
    /\ idx = Len(files)
    /\ output' = report(totals, Len(files), jsonOutput)
    /\ mpc' = "exit"
    /\ UNCHANGED <<files, idx, totals, jsonOutput>>
    /\ UNCHANGED countVars
    /\ UNCHANGED walkVars
    /\ UNCHANGED envVars

Next ==
    \/ \E room \in StackRooms : CountNextFile(room)
    \/ Report

Spec == InitMain /\ [][Next]_vars

SpecReport == InitReport /\ [][Next]_vars

----------------------------------------------------------------------------
(* What the claims about the classifier speak of.                          *)

Nodes(t) == 1..Len(t)

RECURSIVE HasAncestor(_, _, _)
HasAncestor(t, n, a) ==
    /\ n # 0
    /\ t[n].parent # 0
    /\ (t[n].parent = a \/ HasAncestor(t, t[n].parent, a))

\* t with the nodes of S turned into nodes of a kind countNode has no case for.
Erase(t, S) ==
    [i \in 1..Len(t) |-> IF i \in S THEN [t[i] EXCEPT !.kind = "Other"] ELSE t[i]]

\* t with the children of every node in the opposite order.
RECURSIVE MirrorOrder(_, _)
RECURSIVE MirrorAll(_, _)
MirrorOrder(t, n) ==
    (IF n = 0 THEN <<>> ELSE <<n>>) \o MirrorAll(t, Children(t, n))
MirrorAll(t, cs) ==
    IF cs = <<>> THEN <<>>
    ELSE MirrorAll(t, Tail(cs)) \o MirrorOrder(t, Head(cs))

Mirror(t) ==
    LET ord == MirrorOrder(t, 0)
        pos(n) == IF n = 0 THEN 0 ELSE CHOOSE j \in 1..Len(ord) : ord[j] = n
    IN  [j \in 1..Len(t) |-> [kind |-> t[ord[j]].kind, parent |-> pos(t[ord[j]].parent)]]

UnitCounts(kind) ==
    CASE kind \in ClassLike -> [ZeroCounts EXCEPT !.classes = 1]
      [] kind \in MethodLike -> [ZeroCounts EXCEPT !.methods = 1]
      [] kind \in {"FunctionDeclaration", "FunctionExpression"} ->
             [ZeroCounts EXCEPT !.functions = 1]
      [] kind = "ArrowFunction" -> [ZeroCounts EXCEPT !.arrowFunctions = 1]
      [] OTHER -> ZeroCounts

\* Node n of t adds one to the bucket of its kind / adds to no bucket.
AddsOne(t, n) ==
    classify(t, stackRoom).counts
        = AddCounts(classify(Erase(t, {n}), stackRoom).counts, UnitCounts(t[n].kind))
AddsNothing(t, n) ==
    classify(t, stackRoom).counts = classify(Erase(t, {n}), stackRoom).counts

FnExprKinds == {"FunctionExpression", "ArrowFunction"}

\* The inClass arguments countNode was called with on node n.
FlagsAt(calls, n) == {calls[k].inClass : k \in {j \in 1..Len(calls) : calls[j].node = n}}

\* A class whose single method holds one inner arrow and one inner function
\* expression, and nothing else that is counted.
IsClassWithInnerFns(t) ==
    \E c \in {n \in Nodes(t) : t[n].kind \in ClassLike} :
    \E m \in {n \in Nodes(t) : t[n].kind \in MethodLike /\ t[n].parent = c} :
    \E a \in {n \in Nodes(t) : t[n].kind = "ArrowFunction" /\ HasAncestor(t, n, m)} :
    \E f \in {n \in Nodes(t) : t[n].kind = "FunctionExpression" /\ HasAncestor(t, n, m)} :
        \A i \in Nodes(t) \ {c, m, a, f} : t[i].kind = "Other"

\* C1: an arrow function or function expression below a class-like node, at
\* any depth, adds to none of the four counts; a class whose single method
\* holds one inner arrow and one inner function expression gives
\* classes=1, methods=1, functions=0, arrowFunctions=0.
C1_InnerFunctionsUncounted ==
    cpc = "counted" =>
        /\ \A n \in Nodes(tree) :
               (tree[n].kind \in FnExprKinds /\ HasClassAncestor(tree, n))
                   => AddsNothing(tree, n)
        /\ IsClassWithInnerFns(tree) =>
               result.counts = [classes |-> 1, methods |-> 1,
                                functions |-> 0, arrowFunctions |-> 0]

C1_Witness ==
    /\ cpc = "counted"
    /\ IsClassWithInnerFns(tree)
    /\ result.counts.classes = 1 /\ result.counts.methods = 1

\* The function expressions and arrows inside a decorator of a class that is
\* itself outside every class, with no class-like node in between.
DecoratorArgFns(t) ==
    {n \in Nodes(t) :
        /\ t[n].kind \in FnExprKinds
        /\ \E d \in Nodes(t) :
              /\ t[d].kind = "Decorator" /\ HasAncestor(t, n, d)
              /\ t[d].parent # 0 /\ t[t[d].parent].kind \in ClassLike
              /\ ~HasClassAncestor(t, t[d].parent)
              /\ \A x \in Nodes(t) :
                    (HasAncestor(t, n, x) /\ HasAncestor(t, x, d))
                        => t[x].kind \notin ClassLike}

\* C2 (as claimed): a function expression or arrow passed to a decorator of
\* a class is visited with inClass = false and is counted.
C2_DecoratorArgCounted ==
    cpc = "counted" =>
        \A n \in DecoratorArgFns(tree) :
            /\ FlagsAt(result.calls, n) = {FALSE}
            /\ AddsOne(tree, n)

\* C3 (as claimed): functions + arrowFunctions is the number of function
\* declarations, function expressions and arrows with no class-like ancestor.
C3_FpOnlyOutsideClasses ==
    cpc = "counted" =>
        result.counts.functions + result.counts.arrowFunctions
            = Cardinality({n \in Nodes(tree) :
                  tree[n].kind \in FunctionKinds /\ ~HasClassAncestor(tree, n)})

\* C4 (as claimed): methods is the number of method, constructor, getter and
\* setter nodes that are members of a class-like node.
C4_MethodsAreClassMembers ==
    cpc = "counted" =>
        result.counts.methods
            = Cardinality({n \in Nodes(tree) :
                  /\ tree[n].kind \in MethodLike
                  /\ tree[n].parent # 0
                  /\ tree[tree[n].parent].kind \in ClassLike})

\* C9 (as claimed): countNode is called exactly once on every node of every
\* tree; classes is the number of class-like nodes, whatever their nesting;
\* and the four counts are the same when the children of every node come in
\* the opposite order.
C9_EveryNodeOnce ==
    cpc = "counted" =>
        /\ Len(result.calls) = Len(tree)
        /\ \A n \in Nodes(tree) :
               Cardinality({k \in 1..Len(result.calls) : result.calls[k].node = n}) = 1
        /\ result.counts.classes
               = Cardinality({n \in Nodes(tree) : tree[n].kind \in ClassLike})
        /\ classify(Mirror(tree), stackRoom).counts = result.counts

\* One free function declaration and one free arrow, and nothing else counted.
IsFreeFunctionAndArrow(t) ==
    \E f \in {n \in Nodes(t) : t[n].kind = "FunctionDeclaration" /\ t[n].parent = 0} :
    \E a \in {n \in Nodes(t) : t[n].kind = "ArrowFunction"} :
        \A i \in Nodes(t) \ {f, a} : t[i].kind = "Other"

\* C10 (as claimed): the inClass argument of every call is true exactly when
\* the node has a class-like proper ancestor; a function expression or arrow
\* with none is always counted; one free function declaration and one free
\* arrow give classes=0, methods=0, functions=1, arrowFunctions=1.
C10_FlagIsClassAncestry ==
    cpc = "counted" =>
        /\ \A k \in 1..Len(result.calls) :
               result.calls[k].inClass = HasClassAncestor(tree, result.calls[k].node)
        /\ \A n \in Nodes(tree) :
               (tree[n].kind \in FnExprKinds /\ ~HasClassAncestor(tree, n))
                   => AddsOne(tree, n)
        /\ IsFreeFunctionAndArrow(tree) =>
               result.counts = [classes |-> 0, methods |-> 0,
                                functions |-> 1, arrowFunctions |-> 1]

----------------------------------------------------------------------------
(* What the claims about the walker speak of.                              *)

Range(q) == {q[k] : k \in 1..Len(q)}

\* The components of a path, split at "/".
RECURSIVE Components(_)
Components(path) ==
    IF ~Includes(path, "/") THEN <<path>>
    ELSE LET i == CHOOSE i \in 1..Len(path) :
                     /\ SubSeq(path, i, i) = "/"
                     /\ \A j \in 1..(i - 1) : SubSeq(path, j, j) # "/"
         IN  <<SubSeq(path, 1, i - 1)>> \o Components(SubSeq(path, i + 1, Len(path)))

BaseName(path) == Components(path)[Len(Components(path))]

\* The names of the directories a path leads through.
DirsOf(path) == {Components(path)[k] : k \in 1..(Len(Components(path)) - 1)}

\* C7 (as claimed): no returned file lies inside a directory whose bare name
\* is in SKIP_DIRS, for every root directory.
C7_NoFileUnderSkippedName ==
    \A f \in Range(results) : DirsOf(f) \cap SKIP_DIRS = {}

\* C7 (amended): no file that is listed or returned lies, below the root,
\* inside a directory whose bare name is in SKIP_DIRS, and walk is never
\* called on such a directory met as an entry, whatever the exclusion
\* substrings; the root itself is walked whatever its name.
C7_NoFileUnderSkippedEntry ==
    /\ \A f \in Range(results) \cup seenFiles :
           DirsOf(pathRelative(root, f)) \cap SKIP_DIRS = {}
    /\ \A k \in 2..Len(stack) : BaseName(stack[k].dir) \notin SKIP_DIRS

\* A skipped directory was met in the root, and files were returned.
C7_Witness ==
    /\ stack # <<>>
    /\ stack[1].names \cap SKIP_DIRS # {}
    /\ excludePatterns # <<>>
    /\ results # <<>>

\* C8: a file whose path relative to the root contains an exclusion
\* substring is not in results, though it was listed with a .ts/.tsx
\* name; every returned file was listed, and has a name ending in .ts or
\* .tsx and not in .d.ts.
C8_ExcludedFilesAbsent ==
    /\ \A f \in seenFiles :
           Excluded(excludePatterns, pathRelative(root, f)) => f \notin Range(results)
    /\ \A f \in Range(results) :
           /\ f \in seenFiles
           /\ MatchesTsExtension(BaseName(f))
           /\ ~EndsWith(BaseName(f), ".d.ts")

\* A .ts file in a directory, excluded by a substring of its relative path
\* that its name alone does not contain, beside a file that was returned.
C8_Witness ==
    /\ results # <<>>
    /\ \E f \in seenFiles :
          /\ Excluded(excludePatterns, pathRelative(root, f))
          /\ ~Excluded(excludePatterns, BaseName(f))
          /\ MatchesTsExtension(BaseName(f))
          /\ ~EndsWith(BaseName(f), ".d.ts")
          /\ f \notin Range(results)

----------------------------------------------------------------------------
(* What the claims about the main script speak of.                         *)

\* What a file adds to the totals when its walk is made on a stack with
\* room for so many frames: the counts of the walk, or nothing when the read
\* or the parse failed.
Adds(file, room) ==
    IF file.ok THEN classify(file.tree, room).counts ELSE ZeroCounts

ReportedFiles(out) ==
    IF out.mode = "json" THEN NatToString(out.files)
    ELSE SubSeq(out.lines[4], Len("Files: ") + 1, Len(out.lines[4]))

\* C5: the totals start at zero and each round of the loop adds to them,
\* bucket by bucket, the counts of the next file if it was read and parsed
\* (the counts its walk made, to its end or to the point where it threw)
\* and zero if its read or parse failed, so that the totals are the sums
\* over the files read and parsed; after the loop every listed path has
\* been processed and the reported file count is their number, failed ones
\* included.
C5_TotalsSumParsedFiles ==
    /\ [](idx = 0 => totals = ZeroCounts)
    /\ [][/\ idx' \in {idx, idx + 1}
          /\ idx' = idx => totals' = totals
          /\ idx' = idx + 1 =>
                totals' = AddCounts(totals, Adds(files[idx + 1], stackRoom'))]_vars
    /\ [](mpc = "exit" =>
            /\ idx = Len(files)
            /\ ReportedFiles(output) = NatToString(Len(files)))

\* A run over a file that failed (and would have counted) and over the same
\* deep file twice, its walk cut short once and made to the end once.
C5_Witness ==
    /\ mpc = "exit"
    /\ Len(files) = 3
    /\ \E i, j, k \in 1..3 :
          /\ i # j /\ i # k /\ j < k
          /\ ~files[i].ok /\ files[i].tree = FlatFile(3, 5)
          /\ files[j] = [ok |-> TRUE, tree |-> DeepFile]
          /\ files[k] = files[j]
    /\ totals = [classes |-> 1, methods |-> 0, functions |-> 2, arrowFunctions |-> 1]

OopTotal == totals.classes + totals.methods

FpTotal == totals.functions + totals.arrowFunctions

\* 100 * a / b rounded to an integer, halves up.
HalfUp(a, b) == (200 * a + b) \div (2 * b)

Abs(x) == IF x < 0 THEN -x ELSE x

\* The report shows the ratio as n hundredths, in the mode it was made in.
ShowsRatio(out, n) ==
    IF out.mode = "json"
    THEN ~out.ratio.null /\ out.ratio.hundredths = n
    ELSE out.lines[3] = "Ratio (OOP:FP): " \o FixedString(n) \o ":1"

ShowsExample(out) ==
    (totals = [classes |-> 1, methods |-> 2, functions |-> 3, arrowFunctions |-> 5]
        /\ out.mode = "json")
    => /\ out.files = 2
       /\ out.oop.total = 3 /\ out.fp.total = 8
       /\ ShowsRatio(out, 38)

\* C6 (as claimed): with no FP construct the text report shows "inf"; else
\* both modes show oopTotal / fpTotal rounded to two decimal places.
C6_RatioRoundedToTwoPlaces ==
    mpc = "exit" =>
        /\ (FpTotal = 0 /\ output.mode = "text")
               => output.lines[3] = "Ratio (OOP:FP): inf:1"
        /\ FpTotal > 0 => ShowsRatio(output, HalfUp(OopTotal, FpTotal))
        /\ ShowsExample(output)

\* C6 (amended): with no FP construct the text report shows "inf"; else
\* both modes show a two-decimal value nearest to oopTotal / fpTotal (at
\* most 0.005 away, a finite number in structured mode), which is the
\* quotient rounded halves up unless the quotient lies exactly halfway
\* between two such values; 1, 2, 3, 5 over 2 files give 3, 8 and 0.38.
C6_RatioNearestTwoPlaces ==
    mpc = "exit" =>
        /\ (FpTotal = 0 /\ output.mode = "text")
               => output.lines[3] = "Ratio (OOP:FP): inf:1"
        /\ FpTotal > 0 =>
              \E n \in {HalfUp(OopTotal, FpTotal) - 1, HalfUp(OopTotal, FpTotal)} :
                  /\ n >= 0
                  /\ ShowsRatio(output, n)
                  /\ 2 * Abs(100 * OopTotal - n * FpTotal) <= FpTotal
                  /\ 2 * Abs(100 * OopTotal - n * FpTotal) < FpTotal
                         => n = HalfUp(OopTotal, FpTotal)
        /\ ShowsExample(output)

C6_Witness ==
    /\ mpc = "exit"
    /\ output.mode = "json"
    /\ Len(files) = 2
    /\ totals = [classes |-> 1, methods |-> 2, functions |-> 3, arrowFunctions |-> 5]
    /\ output.oop.total = 3 /\ output.fp.total = 8
    /\ ~output.ratio.null /\ output.ratio.hundredths = 38

====
